---- MODULE Spec2Model ----
(***************************************************************************)
(* Model of the profile-switcher connector core:                           *)
(*   - src/src/cmd/initialize.rs : process_cmd_initialize / finish_init    *)
(*   - src/src/process.rs        : fork_browser_proc and its helpers       *)
(*   - src/src/config.rs         : Config.browser_binary, MSIX_PACKAGE     *)
(* Strings whose content matters (storage entry names, extension ids,      *)
(* launch arguments) are sequences of one-character strings.               *)
(***************************************************************************)
EXTENDS Integers, Sequences, FiniteSets, TLC

None == "None"

\* Option<T> of a value that is not a plain string
NoneOpt == [some |-> FALSE]
Some(x) == [some |-> TRUE, v |-> x]

\* ------------------------------------------------------------------------
\* Bounds of the model
\* ------------------------------------------------------------------------
\* largest number of entries of the profile collection
MaxProfiles == 2
\* longest profile name and url, in characters, that is serialized
MaxArgLen == 2

\* ------------------------------------------------------------------------
\* State
\* ------------------------------------------------------------------------
VARIABLES
    \* AppState (fields used by initialize.rs)
    cur_profile_id, internal_extension_id, extension_version, first_run,
    \* the profile collection handed to the handler (ProfilesIniState)
    profile_entries,
    \* the filesystem under each profile: id -> NoDir or the set of dir entries
    storage,
    \* the request handled last
    msg,
    \* what the last handled request produced
    response, event, wrote, was_first_run,
    \* build target (cfg target_family) and the environment of the process
    platform, browser_binary, crash_env, exists,
    \* the process-wide Lazy cells
    PARENT_PROC, MSIX_PACKAGE,
    \* one fork_browser_proc call: position, arguments, locals, outcome
    pc, request, parent_proc, sel_source, launched, result,
    \* the immediate child of the POSIX strategy and what the OS answered
    child, exit_code, fork_res, setsid_res, wait_status,
    \* the browser process started, the packaged activation made
    browser, activation

initVars == <<cur_profile_id, internal_extension_id, extension_version, first_run,
              profile_entries, storage, msg, response, event, wrote,
              was_first_run>>

envVars == <<platform, browser_binary, crash_env, exists>>
cellVars == <<PARENT_PROC, MSIX_PACKAGE>>
callVars == <<pc, request, parent_proc, sel_source, launched, result>>
childVars == <<child, exit_code, fork_res, setsid_res, wait_status>>
procVars == <<browser, activation>>
launchVars == <<envVars, cellVars, callVars, childVars, procVars>>

vars == <<initVars, launchVars>>

\* ------------------------------------------------------------------------
\* initialize.rs
\* ------------------------------------------------------------------------
MozExtension == <<"m","o","z","-","e","x","t","e","n","s","i","o","n","+","+","+">>

EXTENSION_STORAGE_PREFIXES == <<MozExtension, MozExtension, MozExtension, MozExtension>>

\* extension ids the requests carry; the second extends the first
ExtIds == { <<"a">>, <<"a","b">> }

\* a directory entry is read successfully (ok, with its file name) or fails
ReadErr == [ok |-> FALSE, name |-> <<>>]
DirEntry(n) == [ok |-> TRUE, name |-> n]

\* fs::read_dir fails, or yields the entries of the directory
NoDir == [open |-> FALSE]
OpenDir(d) == [open |-> TRUE, entries |-> d]

\* str::starts_with
StartsWith(s, p) ==
    /\ Len(p) <= Len(s)
    /\ \A i \in 1..Len(p) : s[i] = p[i]

\* the closure with the bug of leaving the extension id out of the key
ext_installed_any_extension(dir, extension_id) ==
    \E it \in { e \in dir : e.ok } :
        \E k \in 1..Len(EXTENSION_STORAGE_PREFIXES) :
            StartsWith(it.name, EXTENSION_STORAGE_PREFIXES[k])

\* the closure of lines 38-48: entries that fail to read are dropped, any
\* remaining one whose name starts with some prefix + extension id matches
ext_installed(dir, extension_id) ==
    \E it \in { e \in dir : e.ok } :
        \E k \in 1..Len(EXTENSION_STORAGE_PREFIXES) :
            StartsWith(it.name, EXTENSION_STORAGE_PREFIXES[k] \o extension_id)

RECURSIVE ScanLast(_, _, _)
\* the scan with the bug of keeping the last match instead of returning
ScanLast(entries, fs, extension_id) ==
    IF entries = <<>> THEN None
    ELSE LET rest == ScanLast(Tail(entries), fs, extension_id)
             p == Head(entries)
         IN IF rest # None THEN rest
            ELSE IF fs[p.id].open /\ ext_installed(fs[p.id].entries, extension_id)
                 THEN p.id ELSE None

RECURSIVE ScanProfiles(_, _, _)
\* the loop of lines 30-56: the id of the first profile, in collection
\* order, whose directory opens and holds a matching entry; None otherwise
ScanProfiles(entries, fs, extension_id) ==
    IF entries = <<>> THEN None
    ELSE LET profile == Head(entries)
         IN IF ~fs[profile.id].open
            THEN ScanProfiles(Tail(entries), fs, extension_id)
            ELSE IF ext_installed(fs[profile.id].entries, extension_id)
                 THEN profile.id
                 ELSE ScanProfiles(Tail(entries), fs, extension_id)

\* Version::parse(&v).ok(): version strings are "1.2.3" (valid) or "bad"
VersionStrings == { "1.2.3", "bad" }
ParseVersion(v) == IF v = "1.2.3" THEN v ELSE None

\* first-run marking with the bug of not clearing the other entries
SetDefaultOnly(entries, profile_id) ==
    [i \in 1..Len(entries) |->
        IF entries[i].id = profile_id
        THEN [entries[i] EXCEPT !.default = TRUE]
        ELSE entries[i]]

\* lines 76-85: the entry with the id becomes default, every other entry
\* stops being default; without such an entry nothing changes
SetDefault(entries, profile_id) ==
    IF \E i \in 1..Len(entries) : entries[i].id = profile_id
    THEN [i \in 1..Len(entries) |->
            [entries[i] EXCEPT !.default = (entries[i].id = profile_id)]]
    ELSE entries

HasProfile(entries, profile_id) ==
    \E i \in 1..Len(entries) : entries[i].id = profile_id

\* write_profiles(..) was called with the collection, or was not called
NotWritten == [written |-> FALSE]
Written(entries) == [written |-> TRUE, profiles |-> entries]

\* NativeResponseEvent::ProfileList, or no event
NoEvent == [kind |-> "None"]
ProfileList(profile_id, entries) ==
    [kind |-> "ProfileList", current_profile_id |-> profile_id, profiles |-> entries]

NoResponse == [kind |-> "None"]
NoMessage == [kind |-> "None", profile_id |-> None]

\* finish without looking at first_run
FinishInitAlways(profile_id, m, cached) ==
    /\ cur_profile_id' = profile_id
    /\ internal_extension_id' = Some(m.extension_id)
    /\ extension_version' = IF m.extension_version = None THEN None
                            ELSE ParseVersion(m.extension_version)
    /\ was_first_run' = first_run
    /\ first_run' = FALSE
    /\ profile_entries' = SetDefault(profile_entries, profile_id)
    /\ wrote' = IF HasProfile(profile_entries, profile_id)
                THEN Written(profile_entries') ELSE NotWritten
    /\ event' = ProfileList(profile_id, profile_entries')
    /\ response' = [kind |-> "Initialized", cached |-> cached]

\* finish_init, lines 61-100
finish_init(profile_id, m, cached) ==
    /\ cur_profile_id' = profile_id
    /\ internal_extension_id' = Some(m.extension_id)
    /\ extension_version' = IF m.extension_version = None THEN None
                            ELSE ParseVersion(m.extension_version)
    /\ was_first_run' = first_run
    /\ first_run' = FALSE
    /\ profile_entries' = IF first_run THEN SetDefault(profile_entries, profile_id)
                          ELSE profile_entries
    /\ wrote' = IF first_run /\ HasProfile(profile_entries, profile_id)
                THEN Written(profile_entries') ELSE NotWritten
    /\ event' = ProfileList(profile_id, profile_entries')
    /\ response' = [kind |-> "Initialized", cached |-> cached]

ErrorResponse == [kind |-> "Error", message |-> "Unable to detect current profile."]

\* ids of the collection's entries, in collection order, and one more id
\* that no entry has
IdNames == <<"p1", "p2", "p3", "p4", "p5", "p6">>
ProfileIds == { IdNames[i] : i \in 1..(MaxProfiles + 1) }

Messages ==
    [kind : {"Initialize"},
     extension_id : ExtIds,
     extension_version : VersionStrings \cup {None},
     profile_id : ProfileIds \cup {None}]

\* process_cmd_initialize, lines 17-59, on a NativeMessageInitialize m
process_cmd_initialize(m) ==
    /\ msg' = m
    /\ UNCHANGED launchVars
    /\ IF m.profile_id # None
       THEN finish_init(m.profile_id, m, TRUE)
       ELSE LET found == ScanProfiles(profile_entries, storage, m.extension_id)
            IN IF found # None
               THEN finish_init(found, m, FALSE)
               ELSE /\ response' = ErrorResponse
                    /\ event' = NoEvent
                    /\ wrote' = NotWritten
                    /\ UNCHANGED <<cur_profile_id, internal_extension_id,
                                   extension_version, first_run, profile_entries,
                                   was_first_run>>
    /\ UNCHANGED storage

\* the host handles one initialize request
Initialize == \E m \in Messages : process_cmd_initialize(m)

\* directory contents a profile can have: no matching entry (one entry
\* unreadable), an entry of extension "a", an entry of extension "ab"
DirContents ==
    { { ReadErr, DirEntry(<<"h","t","t","p">>) },
      { DirEntry(MozExtension \o <<"a">>) },
      { DirEntry(MozExtension \o <<"a","b">>), DirEntry(MozExtension) } }

\* profile collections: ids are unique, numbered in collection order
Collections ==
    UNION { [1..n -> { [id |-> None, default |-> b] : b \in BOOLEAN }]
            : n \in 0..MaxProfiles }

WithIds(c) == [i \in 1..Len(c) |-> [id |-> IdNames[i], default |-> c[i].default]]

InitInitialize ==
    /\ cur_profile_id = None
    /\ internal_extension_id = NoneOpt
    /\ extension_version = None
    /\ first_run = TRUE
    /\ \E c \in Collections : profile_entries = WithIds(c)
    /\ storage \in [{ profile_entries[i].id : i \in 1..Len(profile_entries) }
                      -> { OpenDir(d) : d \in DirContents } \cup {NoDir}]
    /\ msg = NoMessage
    /\ response = NoResponse /\ event = NoEvent /\ wrote = NotWritten
    /\ was_first_run = FALSE


\* ------------------------------------------------------------------------
\* process.rs: the well-known table
\* ------------------------------------------------------------------------
\* find_browser_binary on target_family = "unix" (Linux and macOS alike:
\* the cfg_if takes its first matching branch), lines 46-82: per browser of
\* BROWSER_EXECUTABLES the three standard paths, then its flatpak path
UnixTable ==
    << "/usr/bin/firefox", "/usr/local/bin/firefox", "/snap/bin/firefox",
       "/var/lib/flatpak/app/org.mozilla.firefox/current/active/files/bin/firefox",
       "/usr/bin/librewolf", "/usr/local/bin/librewolf", "/snap/bin/librewolf",
       "/var/lib/flatpak/app/io.gitlab.librewolf-community/current/active/files/bin/librewolf",
       "/usr/bin/waterfox", "/usr/local/bin/waterfox", "/snap/bin/waterfox",
       "/var/lib/flatpak/app/net.waterfox.waterfox/current/active/files/bin/waterfox",
       "/usr/bin/zen-browser", "/usr/local/bin/zen-browser", "/snap/bin/zen-browser" >>

\* find_browser_binary on Windows, lines 101-113, with ProgramFiles and
\* ProgramFiles(x86) at their defaults
WindowsTable ==
    << "C:\\Program Files\\Mozilla Firefox\\firefox.exe",
       "C:\\Program Files\\LibreWolf\\librewolf.exe",
       "C:\\Program Files\\Waterfox\\waterfox.exe",
       "C:\\Program Files\\Zen Browser\\zen-browser.exe",
       "C:\\Program Files (x86)\\Mozilla Firefox\\firefox.exe",
       "C:\\Program Files (x86)\\LibreWolf\\librewolf.exe",
       "C:\\Program Files (x86)\\Waterfox\\waterfox.exe",
       "C:\\Program Files (x86)\\Zen Browser\\zen-browser.exe" >>

Table(plat) == IF plat = "unix" THEN UnixTable ELSE WindowsTable

\* find_browser_binary, lines 42-126: the first table path that exists
find_browser_binary(plat, ex) ==
    LET t == Table(plat)
        found == { i \in 1..Len(t) : t[i] \in ex }
    IN IF found = {} THEN None
       ELSE t[CHOOSE i \in found : \A j \in found : i <= j]

\* paths outside the table: a custom install, a store-packaged install
CustomPath(plat) ==
    IF plat = "unix" THEN "/opt/browser/firefox" ELSE "D:\\Browser\\firefox.exe"

MsixPath == "C:\\Program Files\\WindowsApps\\Moz_1_x64__pub\\VFS\\firefox.exe"

\* the paths whose existence varies in the modelled environment
Installable(plat) ==
    IF plat = "unix"
    THEN { "/usr/local/bin/firefox", "/snap/bin/firefox", "/usr/bin/librewolf",
           "/usr/bin/zen-browser", CustomPath(plat) }
    ELSE { "C:\\Program Files\\LibreWolf\\librewolf.exe",
           "C:\\Program Files (x86)\\Mozilla Firefox\\firefox.exe",
           "C:\\Program Files (x86)\\Zen Browser\\zen-browser.exe",
           CustomPath(plat), MsixPath }

\* ------------------------------------------------------------------------
\* process.rs / config.rs: the Lazy cells
\* ------------------------------------------------------------------------
Uninit == [state |-> "uninit"]
ErrCell == [state |-> "err"]
OkCell(v) == [state |-> "ok", v |-> v]

\* an inspector that answers the environment lookup's error whenever the
\* variable's path is missing and the table finds nothing
ParentProcValueErrIfMissing(env, plat, ex) ==
    LET browser_path == find_browser_binary(plat, ex)
    IN IF env # None /\ env \in ex
       THEN OkCell(env)
       ELSE IF browser_path # None
            THEN OkCell(browser_path)
            ELSE ErrCell

\* the closure of PARENT_PROC, lines 285-305
ParentProcValue(env, plat, ex) ==
    LET crash_reporter_result == IF env = None THEN ErrCell ELSE OkCell(env)
        browser_path == find_browser_binary(plat, ex)
    IN IF crash_reporter_result.state = "ok" /\ env \in ex
       THEN crash_reporter_result
       ELSE IF browser_path # None
            THEN OkCell(browser_path)
            ELSE crash_reporter_result

\* Lazy::force: the stored value, computed on first access
ForceParentProc(cell, env, plat, ex) ==
    IF cell = Uninit THEN ParentProcValue(env, plat, ex) ELSE cell

\* Path::components() after the root directory, first three (lines 45-50),
\* for the Windows paths of the model
Components(path) ==
    CASE path = MsixPath -> <<"Program Files", "WindowsApps", "Moz_1_x64__pub">>
      [] path = "D:\\Browser\\firefox.exe" -> <<"Browser", "firefox.exe">>
      [] path = "C:\\Program Files\\Mozilla Firefox\\firefox.exe"
            -> <<"Program Files", "Mozilla Firefox", "firefox.exe">>
      [] path = "C:\\Program Files\\LibreWolf\\librewolf.exe"
            -> <<"Program Files", "LibreWolf", "librewolf.exe">>
      [] path = "C:\\Program Files\\Waterfox\\waterfox.exe"
            -> <<"Program Files", "Waterfox", "waterfox.exe">>
      [] path = "C:\\Program Files\\Zen Browser\\zen-browser.exe"
            -> <<"Program Files", "Zen Browser", "zen-browser.exe">>
      [] path = "C:\\Program Files (x86)\\Mozilla Firefox\\firefox.exe"
            -> <<"Program Files (x86)", "Mozilla Firefox", "firefox.exe">>
      [] path = "C:\\Program Files (x86)\\LibreWolf\\librewolf.exe"
            -> <<"Program Files (x86)", "LibreWolf", "librewolf.exe">>
      [] path = "C:\\Program Files (x86)\\Waterfox\\waterfox.exe"
            -> <<"Program Files (x86)", "Waterfox", "waterfox.exe">>
      [] path = "C:\\Program Files (x86)\\Zen Browser\\zen-browser.exe"
            -> <<"Program Files (x86)", "Zen Browser", "zen-browser.exe">>
      [] OTHER -> <<>>

\* the characters of a package folder name
PackageChars(component) ==
    CASE component = "Moz_1_x64__pub"
            -> <<"M","o","z","_","1","_","x","6","4","_","_","p","u","b">>
      [] component = "firefox.exe"
            -> <<"f","i","r","e","f","o","x",".","e","x","e">>
      [] OTHER -> <<>>

\* str::find("_") and str::rfind("_"): 1-based index, 0 when absent
FindUnderscore(chars) ==
    LET hits == { i \in 1..Len(chars) : chars[i] = "_" }
    IN IF hits = {} THEN 0 ELSE CHOOSE i \in hits : \A j \in hits : i <= j

RFindUnderscore(chars) ==
    LET hits == { i \in 1..Len(chars) : chars[i] = "_" }
    IN IF hits = {} THEN 0 ELSE CHOOSE i \in hits : \A j \in hits : j <= i

\* the closure of MSIX_PACKAGE, config.rs lines 39-68, given whether
\* get_parent_proc_path succeeded and the components taken from its path:
\* the first two by name, the third as the characters of its to_str()
DecodePackage(parent_ok, components) ==
    IF ~parent_ok THEN ErrCell
    ELSE IF /\ Len(components) = 3
            /\ components[1] = "Program Files"
            /\ components[2] = "WindowsApps"
         THEN LET package == components[3]
                  pname_sep == FindUnderscore(package)
                  pid_sep == RFindUnderscore(package)
              IN IF pname_sep # 0 /\ pid_sep # 0
                 THEN OkCell(SubSeq(package, 1, pname_sep - 1) \o <<"_">>
                             \o SubSeq(package, pid_sep + 1, Len(package)))
                 ELSE ErrCell
         ELSE ErrCell

\* MSIX_PACKAGE for the Windows paths of the model, given PARENT_PROC
MsixPackageValue(parent) ==
    IF parent.state # "ok" THEN DecodePackage(FALSE, <<>>)
    ELSE LET components == Components(parent.v)
         IN DecodePackage(TRUE,
                IF Len(components) = 3
                THEN <<components[1], components[2], PackageChars(components[3])>>
                ELSE components)

ForceMsixPackage(cell, parent) ==
    IF cell = Uninit THEN MsixPackageValue(parent) ELSE cell

\* ------------------------------------------------------------------------
\* process.rs: arguments
\* ------------------------------------------------------------------------
DashP == <<"-","P">>
NewTab == <<"-","-","n","e","w","-","t","a","b">>
Quote == "\""

\* build_browser_args, lines 248-258
build_browser_args(profile_name, url) ==
    <<DashP, profile_name>> \o (IF url.some THEN <<NewTab, url.v>> ELSE <<>>)

RECURSIVE ReplaceQuotes(_, _)
\* str::replace("\"", with)
ReplaceQuotes(a, with) ==
    IF a = <<>> THEN <<>>
    ELSE (IF Head(a) = Quote THEN with ELSE <<Head(a)>>) \o ReplaceQuotes(Tail(a), with)

\* the quoting closure without the escaping
QuoteArgUnescaped(a) == <<Quote>> \o a \o <<Quote>>

\* the closure of line 147: format!("\"{}\"", a.replace("\"", "\"\"\""))
QuoteArg(a) == <<Quote>> \o ReplaceQuotes(a, <<Quote, Quote, Quote>>) \o <<Quote>>

RECURSIVE Join(_, _)
\* [String]::join(sep)
Join(strs, sep) ==
    IF strs = <<>> THEN <<>>
    ELSE IF Len(strs) = 1 THEN strs[1]
    ELSE strs[1] \o sep \o Join(Tail(strs), sep)

\* lines 143-149: the argument string handed to ActivateApplication
SerializeArgs(args) ==
    Join([i \in 1..Len(args) |-> QuoteArg(args[i])], <<" ">>)

\* line 153: format!("{}!App", msix_package)
Aumid(msix_package) == msix_package \o <<"!","A","p","p">>

\* ------------------------------------------------------------------------
\* process.rs: fork_browser_proc
\* ------------------------------------------------------------------------
NoRequest == [kind |-> "None"]
LaunchRequest(profile_name, url) ==
    [kind |-> "Launch", profile_name |-> profile_name, url |-> url]

\* launch_browser_process(bin, args) was called, or was not
NoLaunch == [called |-> FALSE]
Launch(bin, args) == [called |-> TRUE, bin |-> bin, args |-> args]

\* a browser process started by Command::spawn, or none
NoProc == [running |-> FALSE]
Proc(bin, args) == [running |-> TRUE, bin |-> bin, args |-> args]

\* an ActivateApplication call that succeeded, or none
NoActivation == [made |-> FALSE]
Activation(aumid, arguments) ==
    [made |-> TRUE, aumid |-> aumid, arguments |-> arguments]

NoSelection == [path |-> None, source |-> "none"]

\* selection with the inspector consulted before the configuration
SelectInspectorFirst(cfg, cell, plat, ex) ==
    IF cell.state = "ok" THEN [path |-> cell.v, source |-> "inspector"]
    ELSE IF cfg # None THEN [path |-> cfg, source |-> "config"]
    ELSE LET binary == find_browser_binary(plat, ex)
         IN IF binary # None THEN [path |-> binary, source |-> "table"]
            ELSE NoSelection

\* lines 170-179: configured path, else PARENT_PROC, else the table
SelectBinary(cfg, cell, plat, ex) ==
    IF cfg # None THEN [path |-> cfg, source |-> "config"]
    ELSE IF cell.state = "ok" THEN [path |-> cell.v, source |-> "inspector"]
    ELSE LET binary == find_browser_binary(plat, ex)
         IN IF binary # None THEN [path |-> binary, source |-> "table"]
            ELSE NoSelection

\* the existence check without the second table search
RevalidateNoFallback(path, plat, ex) ==
    IF path \notin ex THEN None ELSE path

\* lines 181-197 and 205: the binary handed to launch_browser_process, None
\* when the call ends with BinaryDoesNotExist
Revalidate(path, plat, ex) ==
    IF path \notin ex
    THEN LET alt_binary == find_browser_binary(plat, ex)
         IN IF alt_binary = None THEN None
            ELSE IF alt_binary \notin ex THEN None
            ELSE alt_binary
    ELSE path

\* lines 219-233: the code the immediate child passes to exit()
ChildExitCode(setsid_ok, spawn_ok) ==
    IF setsid_ok THEN (IF spawn_ok THEN 0 ELSE 1) ELSE 2

\* the wait mapping that accepts every normal exit
WaitResultAnyExit(status, code) ==
    IF status = "exited" THEN "Ok" ELSE "BadExitCode"

\* lines 214-217: the parent's result from what waitpid returned
WaitResult(status, code) ==
    IF status = "exited" /\ code = 0 THEN "Ok" ELSE "BadExitCode"

\* the packaged result with a failed activation reported as a spawn failure
PackagedResultAsSpawn(com_ok, activate_ok) ==
    IF ~com_ok THEN "COMError"
    ELSE IF ~activate_ok THEN "ProcessLaunchError"
    ELSE "Ok"

\* lines 139-141 and 160-164: the result of the packaged activation from
\* what CoCreateInstance and ActivateApplication answered
PackagedResult(com_ok, activate_ok) ==
    IF ~com_ok THEN "COMError"
    ELSE IF ~activate_ok THEN "MSIXProcessLaunchError"
    ELSE "Ok"

IdleCall ==
    /\ pc = "idle" /\ request = NoRequest /\ parent_proc = None
    /\ sel_source = "none" /\ launched = NoLaunch /\ result = "None"
    /\ child = "none" /\ exit_code = -1 /\ fork_res = "none"
    /\ setsid_res = "none" /\ wait_status = "none"
    /\ browser = NoProc /\ activation = NoActivation

ChildRunning == child \in {"forked", "detached", "exiting"}

\* fork_browser_proc, lines 128-206, up to its return or, in the POSIX
\* strategy, to the return of fork() in the parent; com_ok, activate_ok,
\* spawn_ok and fork_ok are what the OS answers
fork_browser_proc(profile_name, url, com_ok, activate_ok, spawn_ok, fork_ok) ==
    LET win == platform = "windows"
        pp1 == IF win THEN ForceParentProc(PARENT_PROC, crash_env, platform, exists)
               ELSE PARENT_PROC
        mx1 == IF win THEN ForceMsixPackage(MSIX_PACKAGE, pp1) ELSE MSIX_PACKAGE
        msix == win /\ mx1.state = "ok"
        pp2 == IF ~msix /\ browser_binary = None
               THEN ForceParentProc(pp1, crash_env, platform, exists)
               ELSE pp1
        sel == SelectBinary(browser_binary, pp2, platform, exists)
        bin == IF sel.source = "none" THEN None
               ELSE Revalidate(sel.path, platform, exists)
        browser_args == build_browser_args(profile_name, url)
        Returns(r) == result' = r /\ pc' = "returned"
    IN /\ pc = "idle"
       /\ UNCHANGED initVars
       /\ request' = LaunchRequest(profile_name, url)
       /\ PARENT_PROC' = pp2
       /\ MSIX_PACKAGE' = mx1
       /\ UNCHANGED <<envVars, exit_code, setsid_res, wait_status>>
       /\ IF msix
          THEN /\ Returns(PackagedResult(com_ok, activate_ok))
               /\ activation' = IF com_ok /\ activate_ok
                                THEN Activation(Aumid(mx1.v), SerializeArgs(browser_args))
                                ELSE NoActivation
               /\ UNCHANGED <<parent_proc, sel_source, launched, child, fork_res, browser>>
          ELSE /\ parent_proc' = sel.path
               /\ sel_source' = sel.source
               /\ UNCHANGED activation
               /\ IF sel.source = "none"
                  THEN /\ Returns("BinaryNotFound")
                       /\ UNCHANGED <<launched, child, fork_res, browser>>
                  ELSE IF bin = None
                  THEN /\ Returns("BinaryDoesNotExist")
                       /\ UNCHANGED <<launched, child, fork_res, browser>>
                  ELSE /\ launched' = Launch(bin, browser_args)
                       /\ IF win
                          THEN \* lines 238-241: direct spawn
                               /\ Returns(IF spawn_ok THEN "Ok" ELSE "ProcessLaunchError")
                               /\ browser' = IF spawn_ok THEN Proc(bin, browser_args)
                                             ELSE NoProc
                               /\ UNCHANGED <<child, fork_res>>
                          ELSE \* lines 212-235: fork()
                               /\ fork_res' = IF fork_ok THEN "ok" ELSE "err"
                               /\ UNCHANGED browser
                               /\ IF fork_ok
                                  THEN /\ pc' = "waiting" /\ child' = "forked"
                                       /\ UNCHANGED result
                                  ELSE /\ Returns("ForkError")
                                       /\ UNCHANGED child

\* names and urls the launch requests carry
LaunchNames == { <<"w">>, <<"a", Quote>> }
LaunchUrls == { NoneOpt, Some(<<"u">>) }

\* the host handles one launch request
ForkBrowserProc ==
    \E profile_name \in LaunchNames, url \in LaunchUrls :
        \E com_ok, activate_ok, spawn_ok, fork_ok \in BOOLEAN :
            fork_browser_proc(profile_name, url, com_ok, activate_ok, spawn_ok, fork_ok)

\* line 219: the immediate child calls setsid()
ChildSetsid ==
    /\ UNCHANGED initVars
    /\ child = "forked"
    /\ \E ok \in BOOLEAN :
        /\ setsid_res' = IF ok THEN "ok" ELSE "err"
        /\ IF ok
           THEN child' = "detached" /\ UNCHANGED exit_code
           ELSE child' = "exiting" /\ exit_code' = ChildExitCode(FALSE, FALSE)
    /\ UNCHANGED <<envVars, cellVars, callVars, fork_res, wait_status, procVars>>

\* lines 227-230 and 260-274: the immediate child spawns the browser
ChildSpawn ==
    /\ UNCHANGED initVars
    /\ child = "detached"
    /\ \E ok \in BOOLEAN :
        /\ browser' = IF ok THEN Proc(launched.bin, launched.args) ELSE NoProc
        /\ exit_code' = ChildExitCode(TRUE, ok)
    /\ child' = "exiting"
    /\ UNCHANGED <<envVars, cellVars, callVars, fork_res, setsid_res, wait_status,
                   activation>>

\* line 219: exit(code) completes
ChildExit ==
    /\ UNCHANGED initVars
    /\ child = "exiting"
    /\ child' = "exited"
    /\ UNCHANGED <<envVars, cellVars, callVars, exit_code, fork_res, setsid_res,
                   wait_status, procVars>>

\* the immediate child is terminated by a signal before it exits
ChildKilled ==
    /\ UNCHANGED initVars
    /\ ChildRunning
    /\ child' = "signaled"
    /\ UNCHANGED <<envVars, cellVars, callVars, exit_code, fork_res, setsid_res,
                   wait_status, procVars>>

\* a wait that returns only after the launched browser is gone as well
ParentWaitForBrowser ==
    /\ UNCHANGED initVars
    /\ pc = "waiting"
    /\ child \in {"exited", "signaled"}
    /\ ~browser.running
    /\ wait_status' = child
    /\ result' = WaitResult(child, exit_code)
    /\ pc' = "returned"
    /\ UNCHANGED <<envVars, cellVars, request, parent_proc, sel_source, launched,
                   child, exit_code, fork_res, setsid_res, procVars>>

\* lines 214-217: waitpid returns the child's status
ParentWait ==
    /\ UNCHANGED initVars
    /\ pc = "waiting"
    /\ child \in {"exited", "signaled"}
    /\ wait_status' = child
    /\ result' = WaitResult(child, exit_code)
    /\ pc' = "returned"
    /\ UNCHANGED <<envVars, cellVars, request, parent_proc, sel_source, launched,
                   child, exit_code, fork_res, setsid_res, procVars>>

\* lines 214-217: waitpid itself fails (EINTR, ECHILD)
WaitpidFails ==
    /\ UNCHANGED initVars
    /\ pc = "waiting"
    /\ wait_status' = "err"
    /\ result' = WaitResult("err", exit_code)
    /\ pc' = "returned"
    /\ UNCHANGED <<envVars, cellVars, request, parent_proc, sel_source, launched,
                   child, exit_code, fork_res, setsid_res, procVars>>

\* the result went back to the caller; the host waits for the next request
ReturnToHost ==
    /\ UNCHANGED initVars
    /\ pc = "returned"
    /\ ~ChildRunning
    /\ pc' = "idle" /\ request' = NoRequest /\ parent_proc' = None
    /\ sel_source' = "none" /\ launched' = NoLaunch /\ result' = "None"
    /\ child' = "none" /\ exit_code' = -1 /\ fork_res' = "none"
    /\ setsid_res' = "none" /\ wait_status' = "none"
    /\ browser' = NoProc /\ activation' = NoActivation
    /\ UNCHANGED <<envVars, cellVars>>

\* between requests a browser is installed or removed
FsChange ==
    /\ UNCHANGED initVars
    /\ pc = "idle"
    /\ \E path \in Installable(platform) :
        exists' = IF path \in exists THEN exists \ {path} ELSE exists \cup {path}
    /\ UNCHANGED <<platform, browser_binary, crash_env, cellVars, callVars,
                   childVars, procVars>>

InitLaunch ==
    /\ platform \in {"unix", "windows"}
    /\ browser_binary \in {None, CustomPath(platform)}
    /\ crash_env \in {None, CustomPath(platform)}
                     \cup (IF platform = "windows" THEN {MsixPath} ELSE {})
    /\ exists \in SUBSET Installable(platform)
    /\ PARENT_PROC = Uninit
    /\ MSIX_PACKAGE = Uninit
    /\ IdleCall

\* the launch side at rest while initialize requests are handled
LaunchAtRest ==
    /\ platform = "unix" /\ browser_binary = None /\ crash_env = None
    /\ exists = {}
    /\ PARENT_PROC = Uninit /\ MSIX_PACKAGE = Uninit
    /\ IdleCall

\* the initialize side at rest while launch requests are handled
InitializeAtRest ==
    /\ cur_profile_id = None
    /\ internal_extension_id = NoneOpt
    /\ extension_version = None
    /\ first_run = TRUE
    /\ profile_entries = <<>>
    /\ storage = <<>>
    /\ msg = NoMessage
    /\ response = NoResponse /\ event = NoEvent /\ wrote = NotWritten
    /\ was_first_run = FALSE

NextLaunch ==
    \/ ForkBrowserProc
    \/ ChildSetsid
    \/ ChildSpawn
    \/ ChildExit
    \/ ChildKilled
    \/ ParentWait
    \/ WaitpidFails
    \/ ReturnToHost
    \/ FsChange

InitOfLaunch == InitLaunch /\ InitializeAtRest

SpecLaunch == InitOfLaunch /\ [][NextLaunch]_vars

\* waitpid(child, None) returns once the kernel holds the status of the
\* terminated child: a blocked wait whose child is gone is resumed
SpecLaunchFair == InitOfLaunch /\ [][NextLaunch]_vars /\ WF_vars(ParentWait)

\* ------------------------------------------------------------------------
\* process.rs lines 143-164 alone: the packaged-activation argument string
\* ------------------------------------------------------------------------
ArgAlphabet == { Quote, " ", "a" }
ArgStrings == UNION { [1..k -> ArgAlphabet] : k \in 0..MaxArgLen }

InitArgs ==
    /\ InitializeAtRest
    /\ platform = "windows" /\ browser_binary = None /\ crash_env = MsixPath
    /\ exists = {MsixPath}
    /\ PARENT_PROC = OkCell(MsixPath)
    /\ MSIX_PACKAGE = MsixPackageValue(PARENT_PROC)
    /\ pc = "idle"
    /\ \E profile_name \in ArgStrings, url \in {NoneOpt} \cup { Some(u) : u \in ArgStrings } :
          request = LaunchRequest(profile_name, url)
    /\ parent_proc = None /\ sel_source = "none" /\ launched = NoLaunch
    /\ result = "None" /\ child = "none" /\ exit_code = -1 /\ fork_res = "none"
    /\ setsid_res = "none" /\ wait_status = "none"
    /\ browser = NoProc /\ activation = NoActivation

\* the activation of lines 143-164 for the request, when the service works
ActivatePackaged ==
    /\ UNCHANGED initVars
    /\ pc = "idle"
    /\ MSIX_PACKAGE.state = "ok"
    /\ activation' = Activation(Aumid(MSIX_PACKAGE.v),
                        SerializeArgs(build_browser_args(request.profile_name, request.url)))
    /\ result' = "Ok"
    /\ pc' = "returned"
    /\ UNCHANGED <<envVars, cellVars, request, parent_proc, sel_source, launched,
                   childVars, browser>>

SpecArgs == InitArgs /\ [][ActivatePackaged]_vars

\* ------------------------------------------------------------------------
\* config.rs lines 38-68 alone: the package identity of any parent path.
\* Here a path is given by its components after the root directory (the
\* first two by name, the package folder by its characters); the
\* crash-reporter variable is NoneOpt when unset and Some(path) when set,
\* and then names an existing path, so that the parent inspector holds
\* that path (process.rs lines 292-296).
\* ------------------------------------------------------------------------
MaxPkgLen == 8

PkgAlphabet == { "_", "a" }
PkgStrings == UNION { [1..k -> PkgAlphabet] : k \in 0..MaxPkgLen }
FirstDirs == { "Program Files", "Program Files (x86)" }
SecondDirs == { "WindowsApps", "Mozilla Firefox" }
SplitPaths ==
    { <<p1, p2>> : p1 \in FirstDirs, p2 \in SecondDirs }
    \cup { <<p1, p2, package>> : p1 \in FirstDirs, p2 \in SecondDirs,
                                 package \in PkgStrings }

InitMsix ==
    /\ InitializeAtRest
    /\ platform = "windows" /\ browser_binary = None
    /\ crash_env \in {NoneOpt} \cup { Some(path) : path \in SplitPaths }
    /\ exists = IF crash_env.some THEN {crash_env.v} ELSE {}
    /\ PARENT_PROC = IF crash_env.some THEN OkCell(crash_env.v) ELSE ErrCell
    /\ MSIX_PACKAGE = Uninit
    /\ IdleCall

\* config.rs lines 69-72: the first get_msix_package() computes the cell
get_msix_package ==
    /\ UNCHANGED initVars
    /\ pc = "idle"
    /\ MSIX_PACKAGE = Uninit
    /\ MSIX_PACKAGE' = IF PARENT_PROC.state = "ok"
                       THEN DecodePackage(TRUE, PARENT_PROC.v)
                       ELSE DecodePackage(FALSE, <<>>)
    /\ UNCHANGED <<envVars, PARENT_PROC, callVars, childVars, procVars>>

SpecMsix == InitMsix /\ [][get_msix_package]_vars

Init == InitInitialize /\ LaunchAtRest

Next == Initialize

Spec == Init /\ [][Next]_vars

\* ------------------------------------------------------------------------
\* Properties of initialization (checked under Spec)
\* ------------------------------------------------------------------------
\* entry i's storage directory opens and holds a readable entry whose name
\* begins with "moz-extension+++" followed by the extension id
Matches(i, extension_id) ==
    LET dir == storage[profile_entries[i].id]
        key == MozExtension \o extension_id
    IN /\ dir.open
       /\ \E e \in dir.entries :
            /\ e.ok
            /\ Len(e.name) >= Len(key)
            /\ SubSeq(e.name, 1, Len(key)) = key

Handled == msg.kind = "Initialize"

Defaults(entries) == { i \in 1..Len(entries) : entries[i].default }

\* C1: a request without a profile id resolves to the first profile, in
\* collection order, whose storage directory opens and holds an entry named
\* moz-extension+++<extension id>...: that id becomes cur_profile_id and the
\* response is Initialized{cached: false}; unreadable directories are skipped.
C1_ScanResolvesFirstMatch ==
    (Handled /\ msg.profile_id = None) =>
        \A i \in 1..Len(profile_entries) :
            (/\ Matches(i, msg.extension_id)
             /\ \A j \in 1..(i - 1) : ~Matches(j, msg.extension_id))
            => /\ cur_profile_id = profile_entries[i].id
               /\ response = [kind |-> "Initialized", cached |-> FALSE]

\* a scan that skipped an unreadable first profile and resolved to the
\* second one
C1_Witness ==
    /\ Handled /\ msg.profile_id = None
    /\ response.kind = "Initialized"
    /\ Len(profile_entries) >= 2
    /\ ~storage["p1"].open
    /\ cur_profile_id = "p2"

\* C2: a request without a profile id for which no profile matches is
\* answered with the error "Unable to detect current profile." and changes
\* nothing: AppState and every default flag keep their values, nothing is
\* written and no profile-list event is emitted.
C2_NoMatchMutatesNothing ==
    [][ (/\ msg'.profile_id = None
         /\ \A i \in 1..Len(profile_entries) : ~Matches(i, msg'.extension_id))
        => (/\ response' = ErrorResponse
            /\ UNCHANGED <<cur_profile_id, internal_extension_id,
                           extension_version, first_run, profile_entries>>
            /\ wrote' = NotWritten
            /\ event' = NoEvent) ]_vars

\* a failed detection after an earlier successful initialization
C2_Witness ==
    /\ Handled /\ msg.profile_id = None
    /\ response = ErrorResponse
    /\ cur_profile_id # None
    /\ internal_extension_id # Some(msg.extension_id)

\* C3 as stated: after an initialization that completed on first run for
\* profile P, exactly one entry is default and it is the entry with id P,
\* for every collection and every P.
C3_FirstRunExactlyOneDefault ==
    (response.kind = "Initialized" /\ was_first_run) =>
        /\ Cardinality(Defaults(profile_entries)) = 1
        /\ \A i \in Defaults(profile_entries) :
              profile_entries[i].id = cur_profile_id

\* C3 amended: the same, when P is the id of an entry of the collection.
C3_FirstRunDefaultOfKnownProfile ==
    (/\ response.kind = "Initialized" /\ was_first_run
     /\ HasProfile(profile_entries, cur_profile_id)) =>
        /\ Cardinality(Defaults(profile_entries)) = 1
        /\ \A i \in Defaults(profile_entries) :
              profile_entries[i].id = cur_profile_id
        /\ event.profiles = profile_entries
        /\ wrote = Written(profile_entries)

\* a first-run initialization for the second of several profiles
C3_Witness ==
    /\ response.kind = "Initialized" /\ was_first_run
    /\ Len(profile_entries) >= 2
    /\ cur_profile_id = "p2"
    /\ profile_entries[2].default

\* C4: an initialization that completes while first_run is false changes
\* no default flag and writes nothing; a completed initialization clears
\* first_run and nothing sets it again.
C4_NonFirstRunKeepsDefaults ==
    [][ /\ (~first_run) =>
              (/\ ~first_run'
               /\ profile_entries' = profile_entries
               /\ wrote' = NotWritten)
        /\ (response'.kind = "Initialized") => ~first_run' ]_vars

\* a later initialization resolved to a profile other than the default one
C4_Witness ==
    /\ response.kind = "Initialized" /\ ~was_first_run
    /\ HasProfile(profile_entries, cur_profile_id)
    /\ \E i \in Defaults(profile_entries) :
          profile_entries[i].id # cur_profile_id

\* ------------------------------------------------------------------------
\* Properties of the launch (checked under SpecLaunch)
\* ------------------------------------------------------------------------
\* p is the first path of the well-known table, in table order, that exists
IsFirstExisting(p) ==
    LET t == Table(platform)
    IN \E i \in 1..Len(t) :
        /\ t[i] = p
        /\ p \in exists
        /\ \A j \in 1..(i - 1) : t[j] \notin exists

NoTableBinary ==
    \A i \in 1..Len(Table(platform)) : Table(platform)[i] \notin exists

\* the call went through the packaged activation, not through the locator
MsixTaken == platform = "windows" /\ MSIX_PACKAGE.state = "ok"

\* the argument list of the request: -P <name> [--new-tab <url>]
RequestArgs ==
    IF request.url.some
    THEN <<DashP, request.profile_name, NewTab, request.url.v>>
    ELSE <<DashP, request.profile_name>>

C6_FallbackLaunchSucceeds ==
    (/\ pc = "returned" /\ ~MsixTaken
     /\ browser_binary # None /\ browser_binary \notin exists
     /\ ~NoTableBinary) =>
        /\ result \notin {"BinaryNotFound", "BinaryDoesNotExist"}
        /\ launched.called
        /\ IsFirstExisting(launched.bin)
        /\ launched.args = RequestArgs
        /\ browser.running => result = "Ok"

\* C7: BinaryNotFound is returned exactly when nothing is configured, the
\* inspector failed and no table path exists; BinaryDoesNotExist exactly
\* when a candidate was selected, it does not exist and no table path
\* exists; in both cases nothing was forked, spawned or activated.
C7_NotFoundAndDoesNotExist ==
    (pc = "returned") =>
        /\ (result = "BinaryNotFound") <=>
              (/\ browser_binary = None
               /\ PARENT_PROC.state = "err"
               /\ NoTableBinary)
        /\ (result = "BinaryDoesNotExist") <=>
              (/\ parent_proc # None
               /\ parent_proc \notin exists
               /\ NoTableBinary)
        /\ (result \in {"BinaryNotFound", "BinaryDoesNotExist"}) =>
              (/\ ~launched.called /\ fork_res = "none" /\ child = "none"
               /\ ~browser.running /\ ~activation.made)

\* the inspector's cached path has disappeared and nothing replaces it
C7_Witness ==
    /\ pc = "returned"
    /\ result = "BinaryDoesNotExist"
    /\ sel_source = "inspector"
    /\ parent_proc \in Installable(platform)

\* C8: in the POSIX strategy the immediate child's exit code is 0 only
\* after setsid and the spawn succeeded, 1 after a failed spawn, 2 after a
\* failed setsid; the parent returns Ok exactly when waitpid reported a
\* normal exit with code 0, BadExitCode for every other wait outcome, and
\* ForkError exactly when fork failed.
C8_PosixExitCodes ==
    (platform = "unix") =>
        /\ (exit_code = 0) => (setsid_res = "ok" /\ browser.running)
        /\ (exit_code # -1 /\ setsid_res = "ok" /\ ~browser.running) => exit_code = 1
        /\ (setsid_res = "err") => exit_code = 2
        /\ (exit_code \in {-1, 0, 1, 2})
        /\ (pc = "returned" /\ launched.called) =>
              /\ (result = "Ok") <=> (wait_status = "exited" /\ exit_code = 0)
              /\ (result = "ForkError") <=> (fork_res = "err")
              /\ (fork_res = "ok" /\ result # "Ok") => result = "BadExitCode"

\* the spawn failed, the child exited with 1 and the parent reports it
C8_Witness ==
    /\ platform = "unix" /\ pc = "returned"
    /\ wait_status = "exited" /\ exit_code = 1
    /\ result = "BadExitCode"

\* C9 as stated: a launch that returned an error has started no browser,
\* and a launch that returned success has started one.
C9_NoPartialSuccess ==
    (pc = "returned") =>
        /\ (result # "Ok") => (~browser.running /\ ~activation.made)
        /\ (result = "Ok") => (browser.running \/ activation.made)

\* C11: on Windows, a launch made while the package inspector holds a
\* package goes through the activation service alone, with the identifier
\* <package>!App: no binary is selected from the configuration, the parent
\* inspector or the table, nothing is spawned or forked, and the result is
\* Ok, COMError or MSIXProcessLaunchError.
C11_PackagedLaunchBypassesLocator ==
    (pc # "idle" /\ MsixTaken) =>
        /\ parent_proc = None /\ sel_source = "none"
        /\ ~launched.called /\ ~browser.running
        /\ fork_res = "none" /\ child = "none"
        /\ result \in {"Ok", "COMError", "MSIXProcessLaunchError"}
        /\ (result = "Ok") <=> activation.made
        /\ activation.made =>
              /\ activation.aumid = MSIX_PACKAGE.v \o <<"!","A","p","p">>
              /\ activation.aumid = <<"M","o","z","_","p","u","b","!","A","p","p">>

\* the activation call failed although a configured binary and a table
\* binary both exist
C11_Witness ==
    /\ pc = "returned" /\ MsixTaken
    /\ result = "MSIXProcessLaunchError"
    /\ browser_binary # None /\ browser_binary \in exists
    /\ ~NoTableBinary

\* C12: once the immediate child has terminated, the blocked launch
\* returns to its caller, also while the browser it spawned keeps running
\* (the browser of the model never exits); and the launch leaves the wait
\* only on the immediate child's termination or on a failure of the wait.
C12_WaitsOnlyForImmediateChild ==
    /\ (pc = "waiting" /\ child \in {"exited", "signaled"}) ~> (pc = "returned")
    /\ (pc = "waiting" /\ child = "exited" /\ browser.running)
          ~> (pc = "returned" /\ browser.running)
    /\ [][(pc = "waiting" /\ pc' = "returned") =>
             (child \in {"exited", "signaled"} \/ wait_status' = "err")]_vars

\* the launch returned success while the browser is running
C12_Witness ==
    /\ pc = "returned" /\ wait_status = "exited" /\ result = "Ok"
    /\ child = "exited" /\ browser.running

\* the step in which the parent inspector computes its value (the
\* filesystem is the same before and after that step)
InspectorComputed == PARENT_PROC = Uninit /\ PARENT_PROC' # Uninit

\* the first two cases of the inspector: the variable's existing path, else
\* the first existing path of the table
InspectorFindsPath ==
    /\ (crash_env # None /\ crash_env \in exists) =>
           PARENT_PROC' = OkCell(crash_env)
    /\ (~(crash_env # None /\ crash_env \in exists) /\ ~NoTableBinary) =>
           /\ PARENT_PROC'.state = "ok"
           /\ IsFirstExisting(PARENT_PROC'.v)

\* C13 as stated: when neither the variable names an existing path nor the
\* table finds one, the inspector's result is a failure and not a path,
\* whether the variable is unset or set to a missing path.
C13_InspectorFailsWithoutExistingPath ==
    [][InspectorComputed =>
         /\ InspectorFindsPath
         /\ (~(crash_env # None /\ crash_env \in exists) /\ NoTableBinary) =>
                PARENT_PROC' = ErrCell]_vars

\* C13, amended: when neither the variable names an existing path nor the
\* table finds one, the inspector's result is that of the environment
\* lookup: a failure when the variable is unset, and the variable's path,
\* which does not exist, when it is set.
C13_InspectorFallsBackToLookup ==
    [][InspectorComputed =>
         /\ InspectorFindsPath
         /\ (crash_env = None /\ NoTableBinary) => PARENT_PROC' = ErrCell
         /\ (crash_env # None /\ crash_env \notin exists /\ NoTableBinary) =>
                PARENT_PROC' = OkCell(crash_env)]_vars

\* the inspector answered the variable's missing path, and the launch that
\* selected it ended in BinaryDoesNotExist
C13_Witness ==
    /\ PARENT_PROC = OkCell(crash_env)
    /\ crash_env # None /\ crash_env \notin exists /\ NoTableBinary
    /\ pc = "returned" /\ sel_source = "inspector"
    /\ result = "BinaryDoesNotExist"

\* ------------------------------------------------------------------------
\* Properties of the package identity (checked under SpecMsix)
\* ------------------------------------------------------------------------
Underscores(package) == { i \in 1..Len(package) : package[i] = "_" }

\* <name>_<version>_<arch>__<publisher-id>: four underscores, the last two
\* adjacent, around four non-empty parts
IsPackageForm(package) ==
    \E u1, u2, u3, u4 \in 1..Len(package) :
        /\ Underscores(package) = {u1, u2, u3, u4}
        /\ 1 < u1 /\ u1 + 1 < u2 /\ u2 + 1 < u3 /\ u4 = u3 + 1
        /\ u4 < Len(package)

\* the parent inspector holds a path whose first three components are
\* Program Files, WindowsApps and a package folder of the exact form
IsPackagedPath ==
    /\ PARENT_PROC.state = "ok"
    /\ Len(PARENT_PROC.v) = 3
    /\ PARENT_PROC.v[1] = "Program Files"
    /\ PARENT_PROC.v[2] = "WindowsApps"
    /\ IsPackageForm(PARENT_PROC.v[3])

\* C14: the package inspector succeeds exactly for the parent paths under
\* Program Files\WindowsApps\<name>_<version>_<arch>__<publisher-id>, and
\* then gives <name>_<publisher-id>; for every other parent path, and when
\* the parent inspector failed, it gives a failure.
C14_DecodesOnlyExactPackageForm ==
    MSIX_PACKAGE # Uninit =>
        /\ (MSIX_PACKAGE.state = "ok") <=> IsPackagedPath
        /\ (MSIX_PACKAGE.state = "ok") =>
              LET package == PARENT_PROC.v[3]
                  us == Underscores(package)
                  first == CHOOSE i \in us : \A j \in us : i <= j
                  last == CHOOSE i \in us : \A j \in us : j <= i
              IN MSIX_PACKAGE.v = SubSeq(package, 1, first - 1) \o <<"_">>
                                  \o SubSeq(package, last + 1, Len(package))

\* ------------------------------------------------------------------------
\* Properties of the argument string (checked under SpecArgs)
\* ------------------------------------------------------------------------
RECURSIVE ReadQuoted(_, _, _)
\* reads the body of a quoted argument of str from position i on: three
\* quotes stand for one, a single quote ends the argument; the result is
\* the argument read and the position after its closing quote, position 0
\* when the closing quote is missing
ReadQuoted(str, i, acc) ==
    IF i > Len(str) THEN [arg |-> acc, next |-> 0]
    ELSE IF str[i] # Quote THEN ReadQuoted(str, i + 1, Append(acc, str[i]))
    ELSE IF i + 2 <= Len(str) /\ str[i + 1] = Quote /\ str[i + 2] = Quote
         THEN ReadQuoted(str, i + 3, Append(acc, Quote))
         ELSE [arg |-> acc, next |-> i + 1]

RECURSIVE ReadArgs(_, _, _)
\* the argument list of an argument string: quoted arguments separated by
\* single spaces; <<"malformed">> when str is no such string
ReadArgs(str, i, acc) ==
    IF i > Len(str) \/ str[i] # Quote THEN <<"malformed">>
    ELSE LET r == ReadQuoted(str, i + 1, <<>>)
         IN IF r.next = 0 THEN <<"malformed">>
            ELSE IF r.next > Len(str) THEN Append(acc, r.arg)
            ELSE IF str[r.next] # " " THEN <<"malformed">>
            ELSE ReadArgs(str, r.next + 1, Append(acc, r.arg))

\* C10: the argument list is recovered unchanged from the string made by
\* quoting each argument, tripling its quotes and joining with spaces, so
\* different argument lists have different strings.
C10_SerializationRoundTrips ==
    activation.made => ReadArgs(activation.arguments, 1, <<>>) = RequestArgs

\* a profile name and a url that both hold a quote and are serialized
C10_Witness ==
    /\ activation.made
    /\ request.url.some
    /\ \E i \in 1..Len(request.profile_name) : request.profile_name[i] = Quote
    /\ \E i \in 1..Len(request.url.v) : request.url.v[i] = Quote

====
